---- MODULE Spec2Model ----
(***************************************************************************)
(* Model of rtsp_roi_counter.py: the ROI overlap test, the detection       *)
(* classifier, the rolling statistics window (PerformanceMonitor), the     *)
(* buffer probe that evaluates one frame, the bus message handler and the  *)
(* run() lifecycle, with the HTTP status thread reading the statistics     *)
(* concurrently.                                                           *)
(*                                                                         *)
(* Numbers.  Relative coordinates (floats in 0.0-1.0) are exact rationals  *)
(* with denominator Scale: the value v stands for v / Scale.  A pixel      *)
(* coordinate is relative * dimension, kept in the same unit.  Times are   *)
(* whole seconds of the wall clock; an interval is (t2 - t1) * 1000 ms.    *)
(***************************************************************************)
EXTENDS Integers, Sequences, FiniteSets, TLC

----------------------------------------------------------------------------
(* Bounds of the model *)

\* largest wall-clock reading
MaxTime == 2
\* capacity of the two deques (window_size)
WindowSize == 2
\* number of probe invocations explored: enough to overflow the window
\* (the first invocation never records, and the clock has to step back
\* once before a sample more than MaxTime can be recorded)
MaxCalls == WindowSize + 3
\* number of probe invocations of a whole run of the program
MaxRunCalls == 3
\* longest detection list of one frame
MaxDet == 1
\* pixel coordinates of the overlap inputs range over 0..GridMax
GridMax == 3
\* longest detection list of the single-frame specification
MaxScanLen == 2

----------------------------------------------------------------------------
(* Program constants *)

Scale == 20
COCO_PERSON == 0
COCO_VEHICLES == {2, 3, 5, 7}
DefaultWidth == 640
DefaultHeight == 640
RecentSamples == 10

Min(a, b) == IF a < b THEN a ELSE b
Max(a, b) == IF a > b THEN a ELSE b

----------------------------------------------------------------------------
(* ROI.contains_bbox *)

\* contains_bbox with an exclusive test
contains_bbox_strict(roi, bbox_x1, bbox_y1, bbox_x2, bbox_y2, frame_width, frame_height) ==
    LET roi_abs_x1 == roi.x1 * frame_width
        roi_abs_y1 == roi.y1 * frame_height
        roi_abs_x2 == roi.x2 * frame_width
        roi_abs_y2 == roi.y2 * frame_height
    IN  ~ (bbox_x2 <= roi_abs_x1 \/ bbox_x1 >= roi_abs_x2 \/
           bbox_y2 <= roi_abs_y1 \/ bbox_y1 >= roi_abs_y2)

contains_bbox(roi, bbox_x1, bbox_y1, bbox_x2, bbox_y2, frame_width, frame_height) ==
    LET roi_abs_x1 == roi.x1 * frame_width
        roi_abs_y1 == roi.y1 * frame_height
        roi_abs_x2 == roi.x2 * frame_width
        roi_abs_y2 == roi.y2 * frame_height
    IN  IF bbox_x2 < roi_abs_x1 \/ bbox_x1 > roi_abs_x2 \/
           bbox_y2 < roi_abs_y1 \/ bbox_y1 > roi_abs_y2
        THEN FALSE
        ELSE TRUE

----------------------------------------------------------------------------
(* Labels are Python strings: sequences of characters.  str.lower() maps   *)
(* each upper-case letter to its lower-case letter and leaves the rest.    *)

UpperLetters == << "A","B","C","D","E","F","G","H","I","J","K","L","M",
                   "N","O","P","Q","R","S","T","U","V","W","X","Y","Z" >>
LowerLetters == << "a","b","c","d","e","f","g","h","i","j","k","l","m",
                   "n","o","p","q","r","s","t","u","v","w","x","y","z" >>

LowerChar(c) ==
    IF \E i \in 1..26 : UpperLetters[i] = c
    THEN LowerLetters[CHOOSE i \in 1..26 : UpperLetters[i] = c]
    ELSE c

lower(s) == [i \in 1..Len(s) |-> LowerChar(s[i])]

L_person     == << "p","e","r","s","o","n" >>
L_car        == << "c","a","r" >>
L_automobile == << "a","u","t","o","m","o","b","i","l","e" >>
L_motorcycle == << "m","o","t","o","r","c","y","c","l","e" >>
L_motorbike  == << "m","o","t","o","r","b","i","k","e" >>
L_bus        == << "b","u","s" >>
L_truck      == << "t","r","u","c","k" >>
L_lorry      == << "l","o","r","r","y" >>

LabelKeys == { L_person, L_car, L_automobile, L_motorcycle, L_motorbike,
               L_bus, L_truck, L_lorry }

LABEL_TO_CLASS ==
    [ k \in LabelKeys |->
        CASE k = L_person     -> 0
          [] k = L_car        -> 2
          [] k = L_automobile -> 2
          [] k = L_motorcycle -> 3
          [] k = L_motorbike  -> 3
          [] k = L_bus        -> 5
          [] k = L_truck      -> 7
          [] k = L_lorry      -> 7 ]

(* A class id as the probe holds it: None, or a number. *)
NoClass == [known |-> FALSE, id |-> 0]
ClassOf(n) == [known |-> TRUE, id |-> n]

(* A raw detection.  hasId/id: what get_class_id() gives (hasId = FALSE    *)
(* when the method is missing, raises or returns None).  labelKind is the  *)
(* type of get_label()'s value: "str" (labelStr), "int" (labelNum) or      *)
(* "none" (the call raises or gives another type).  bbox is the normalized *)
(* box <<xmin, ymin, xmax, ymax>>; malformed = get_bbox(), get_confidence() *)
(* or a coordinate accessor raises.                                        *)
Detection(hasId, id, labelKind, labelStr, labelNum, bbox, malformed) ==
    [hasId |-> hasId, id |-> id, labelKind |-> labelKind, labelStr |-> labelStr,
     labelNum |-> labelNum, bbox |-> bbox, malformed |-> malformed]

\* resolve_class_id without label.lower()
resolve_class_id_nolower(d) ==
    IF d.hasId THEN ClassOf(d.id)
    ELSE IF d.labelKind = "str"
         THEN IF d.labelStr \in LabelKeys
              THEN ClassOf(LABEL_TO_CLASS[d.labelStr]) ELSE NoClass
         ELSE IF d.labelKind = "int" THEN ClassOf(d.labelNum) ELSE NoClass

\* resolve_class_id without the label fallback
resolve_class_id_nofallback(d) ==
    IF d.hasId THEN ClassOf(d.id) ELSE NoClass

(* lines 283-300: get_class_id first, the label only when that gave None *)
resolve_class_id(d) ==
    IF d.hasId THEN ClassOf(d.id)
    ELSE IF d.labelKind = "str"
         THEN IF lower(d.labelStr) \in LabelKeys
              THEN ClassOf(LABEL_TO_CLASS[lower(d.labelStr)]) ELSE NoClass
         ELSE IF d.labelKind = "int" THEN ClassOf(d.labelNum) ELSE NoClass

(* The three counters of one frame and whether the scan raised. *)
Counts(p, v, t, r) ==
    [person_count |-> p, vehicle_count |-> v, total_detections |-> t, raised |-> r]

ZeroCounts == Counts(0, 0, 0, FALSE)

(* lines 326-336: one detection with a class id and a readable box *)
count_one(acc, class_id, d, roi, frame_width, frame_height) ==
    LET x1 == d.bbox[1] * frame_width
        y1 == d.bbox[2] * frame_height
        x2 == d.bbox[3] * frame_width
        y2 == d.bbox[4] * frame_height
    IN  IF contains_bbox(roi, x1, y1, x2, y2, frame_width, frame_height)
        THEN IF class_id.id = COCO_PERSON
             THEN Counts(acc.person_count + 1, acc.vehicle_count,
                         acc.total_detections + 1, FALSE)
             ELSE IF class_id.id \in COCO_VEHICLES
                  THEN Counts(acc.person_count, acc.vehicle_count + 1,
                              acc.total_detections + 1, FALSE)
                  ELSE Counts(acc.person_count, acc.vehicle_count,
                              acc.total_detections + 1, FALSE)
        ELSE acc

(* lines 281-346: the loop over the detections.  A detection without a     *)
(* class id is skipped; a malformed one raises out of the loop into the    *)
(* except clause of line 342, which keeps the counters as they are.        *)
RECURSIVE scan_from(_, _, _, _, _, _)
scan_from(dets, i, acc, roi, frame_width, frame_height) ==
    IF i > Len(dets) THEN acc
    ELSE LET d == dets[i]
             class_id == resolve_class_id(d)
         IN  IF ~ class_id.known
             THEN scan_from(dets, i + 1, acc, roi, frame_width, frame_height)
             ELSE IF d.malformed
                  THEN [acc EXCEPT !.raised = TRUE]
                  ELSE scan_from(dets, i + 1,
                                 count_one(acc, class_id, d, roi, frame_width, frame_height),
                                 roi, frame_width, frame_height)

(* lines 252-346: readable = get_roi_from_buffer / get_objects_typed (and  *)
(* the import of hailo) succeed; otherwise the except clauses leave zeros. *)
scan_detections(readable, dets, roi, frame_width, frame_height) ==
    IF readable
    THEN scan_from(dets, 1, ZeroCounts, roi, frame_width, frame_height)
    ELSE Counts(0, 0, 0, TRUE)

----------------------------------------------------------------------------
(* PerformanceMonitor *)

\* deque_append refusing the new entry when full
deque_append_dropnew(q, x) ==
    IF Len(q) >= WindowSize THEN q ELSE Append(q, x)

\* deque(maxlen=window_size).append: the oldest entry leaves when full
deque_append(q, x) ==
    IF Len(q) >= WindowSize THEN Append(Tail(q), x) ELSE Append(q, x)

RECURSIVE SumSeq(_)
SumSeq(s) == IF s = << >> THEN 0 ELSE Head(s) + SumSeq(Tail(s))

\* round(a / b) for a >= 0, b > 0, ties to even as Python's round()
RoundDiv(a, b) ==
    LET q == a \div b
        r == a % b
    IN  IF 2 * r < b THEN q
        ELSE IF 2 * r > b THEN q + 1
        ELSE IF q % 2 = 0 THEN q ELSE q + 1

\* list(...)[-10:]
Recent(s) == SubSeq(s, Max(1, Len(s) - RecentSamples + 1), Len(s))

\* the dictionary get_stats returns; {} is the record with empty = TRUE.
\* avg_x100 and fps_x100 are the two rounded values in hundredths;
\* recent_persons / recent_n is recent_person_count (0 when recent_n = 0).
EmptyStats ==
    [empty |-> TRUE, avg_x100 |-> 0, fps_x100 |-> 0, total_frames |-> 0,
     recent_n |-> 0, recent_persons |-> 0, recent_vehicles |-> 0]

get_stats(ft, ds) ==
    IF ft = << >> THEN EmptyStats
    ELSE LET total  == SumSeq(ft)
             n      == Len(ft)
             recent == Recent(ds)
         IN  [empty |-> FALSE,
              avg_x100 |-> IF total >= 0 THEN RoundDiv(total * 100, n)
                           ELSE 0 - RoundDiv((0 - total) * 100, n),
              fps_x100 |-> IF total > 0 THEN RoundDiv(1000 * 100 * n, total) ELSE 0,
              total_frames |-> n,
              recent_n |-> Len(recent),
              recent_persons |-> SumSeq([i \in 1..Len(recent) |-> recent[i].person_count]),
              recent_vehicles |-> SumSeq([i \in 1..Len(recent) |-> recent[i].vehicle_count])]

\* DetectionStats.  seq is not a field of the source: it is the arrival
\* number of the sample, which tells two equal-looking samples apart.
DetectionStats(ts, c, interval, name, n) ==
    [timestamp |-> ts, person_count |-> c.person_count,
     vehicle_count |-> c.vehicle_count, total_detections |-> c.total_detections,
     processing_time_ms |-> interval, roi_name |-> name, seq |-> n]

----------------------------------------------------------------------------
(* Inputs *)

ROI(x1, y1, x2, y2, name) == [x1 |-> x1, y1 |-> y1, x2 |-> x2, y2 |-> y2, name |-> name]

\* the regions a configuration file may carry: the example of main(), and
\* an inverted one
RoiConfigs == { ROI(4, 4, 16, 16, "entrance"), ROI(16, 16, 4, 4, "entrance") }

\* frame sizes the pad caps may announce: the capsfilter of build_pipeline
\* fixes them to inference_width x inference_height (640 x 640)
CapsSizes == { << 640, 640 >> }

BoxInside  == << 2, 2, 10, 10 >>
BoxOutside == << 18, 18, 19, 19 >>

\* the detections of the frames of a run
FrameDetections ==
    { Detection(TRUE, 0, "str", L_person, 0, BoxInside, FALSE),
      Detection(TRUE, 0, "str", L_person, 0, BoxOutside, FALSE),
      Detection(TRUE, 2, "str", L_car, 0, BoxInside, FALSE) }

DetectionLists == UNION { [1..n -> FrameDetections] : n \in 0..MaxDet }

Times == 0..MaxTime

\* bus messages: the type, and for an error whether the engine can go on
Messages ==
    { [type |-> "EOS", recoverable |-> TRUE],
      [type |-> "ERROR", recoverable |-> TRUE],
      [type |-> "ERROR", recoverable |-> FALSE],
      [type |-> "WARNING", recoverable |-> TRUE],
      [type |-> "STATE_CHANGED", recoverable |-> TRUE] }

NoMessage == [type |-> "none", recoverable |-> TRUE]

----------------------------------------------------------------------------
(* State *)

VARIABLES
    pc,              \* position of the main thread in main() / run()
    exit_code,       \* -1 while running, else the process exit code
    raised,          \* exception that left main() uncaught, or "none"
    engine,          \* state of the GStreamer pipeline: "NULL" or "PLAYING"
    log,             \* tags of the lifecycle lines written through the logger
                     \* (the lines written per frame are not kept)
    stop_msg,        \* the message or interrupt that quit the main loop
    roi,             \* self.roi
    frame_width, frame_height,
    frame_times, detection_stats, lock,     \* PerformanceMonitor
    final_stats,     \* final_stats of run()
    pcProbe,         \* position of the streaming thread in on_buffer_probe
    last_frame_time, \* -1 is None
    frame_count,
    current_time, frame_interval_ms,        \* locals of on_buffer_probe
    readable, detections, counts,           \* locals of on_buffer_probe
    pcStatus,        \* position of the HTTP thread in do_GET / get_stats
    calls,           \* number of probe invocations so far
    recorded,        \* number of samples appended so far
    prev_processed,  \* timestamp of the latest frame that had a buffer, -1 if none
    overlap_in,      \* arguments of one call of contains_bbox
    overlap_out      \* its result: "unset", "True" or "False"

mainVars   == << pc, exit_code, raised, engine, log, stop_msg, roi,
                 frame_width, frame_height, final_stats >>
aggVars    == << frame_times, detection_stats, lock >>
probeVars  == << pcProbe, last_frame_time, frame_count, current_time,
                 frame_interval_ms, readable, detections, counts,
                 calls, recorded, prev_processed >>
pureVars   == << overlap_in, overlap_out >>
vars == << mainVars, aggVars, probeVars, pcStatus, pureVars >>

NoRoi == ROI(0, 0, 0, 0, "")

NoOverlapCall == [roi |-> NoRoi, bbox |-> << 0, 0, 0, 0 >>, w |-> 0, h |-> 0]

\* the state after process start, before RTSPROICounter is constructed
InitProgram ==
    /\ pc = "init"
    /\ exit_code = -1
    /\ raised = "none"
    /\ engine = "NULL"
    /\ log = {}
    /\ stop_msg = NoMessage
    /\ roi = NoRoi
    /\ frame_width = DefaultWidth
    /\ frame_height = DefaultHeight
    /\ frame_times = << >>
    /\ detection_stats = << >>
    /\ lock = "free"
    /\ final_stats = EmptyStats
    /\ pcProbe = "idle"
    /\ last_frame_time = -1
    /\ frame_count = 0
    /\ current_time = 0
    /\ frame_interval_ms = 0
    /\ readable = TRUE
    /\ detections = << >>
    /\ counts = ZeroCounts
    /\ pcStatus = "idle"
    /\ calls = 0
    /\ recorded = 0
    /\ prev_processed = -1

Init ==
    /\ overlap_in = NoOverlapCall
    /\ overlap_out = "unset"
    /\ InitProgram

----------------------------------------------------------------------------
(* main() and RTSPROICounter.run() *)

Exit(code) ==
    /\ pc' = "exited"
    /\ exit_code' = code

\* RTSPROICounter.__init__: load_config raises ValueError on a missing
\* required field; otherwise the ROI is built from the configuration as it
\* is and the HTTP status thread is started.
Construct(missing, r) ==
    /\ pc = "init"
    /\ IF missing
       THEN /\ raised' = "ValueError"
            /\ Exit(1)
            /\ UNCHANGED roi
       ELSE /\ roi' = r
            /\ pc' = "constructed"
            /\ UNCHANGED << raised, exit_code >>
    /\ UNCHANGED << engine, log, stop_msg, frame_width, frame_height, final_stats,
                    aggVars, probeVars, pcStatus >>
    /\ UNCHANGED pureVars

\* run() up to build_pipeline(): find_postprocess_lib raises
\* FileNotFoundError when no candidate path exists.
BuildPipeline(libFound) ==
    /\ pc = "constructed"
    /\ IF libFound
       THEN /\ log' = log \cup {"starting", "built"}
            /\ pc' = "built"
            /\ UNCHANGED << raised, exit_code >>
       ELSE /\ log' = log \cup {"starting"}
            /\ raised' = "FileNotFoundError"
            /\ Exit(1)
    /\ UNCHANGED << engine, stop_msg, roi, frame_width, frame_height, final_stats,
                    aggVars, probeVars, pcStatus >>
    /\ UNCHANGED pureVars

\* Gst.parse_launch, the probe on hailo_filter, the caps of its src pad and
\* the bus watch.  caps = << >> when the pad has no caps yet.
ParseLaunch(ok, caps) ==
    /\ pc = "built"
    /\ IF ok
       THEN /\ pc' = "parsed"
            /\ log' = log \cup {"probe_added"}
            /\ frame_width' = IF caps = << >> THEN frame_width ELSE caps[1]
            /\ frame_height' = IF caps = << >> THEN frame_height ELSE caps[2]
            /\ UNCHANGED exit_code
       ELSE /\ log' = log \cup {"create_failed"}
            /\ Exit(1)
            /\ UNCHANGED << frame_width, frame_height >>
    /\ UNCHANGED << raised, engine, stop_msg, roi, final_stats,
                    aggVars, probeVars, pcStatus >>
    /\ UNCHANGED pureVars

\* StartPipeline going on after a rejected start
StartPipeline_ignores_failure(ok) ==
    /\ pc = "parsed"
    /\ IF ok
       THEN log' = log \cup {"started"}
       ELSE log' = log \cup {"start_failed"}
    /\ engine' = "PLAYING"
    /\ pc' = "loop"
    /\ UNCHANGED << exit_code, raised, stop_msg, roi, frame_width, frame_height,
                    final_stats, aggVars, probeVars, pcStatus >>
    /\ UNCHANGED pureVars

\* pipeline.set_state(PLAYING)
StartPipeline(ok) ==
    /\ pc = "parsed"
    /\ IF ok
       THEN /\ engine' = "PLAYING"
            /\ log' = log \cup {"started"}
            /\ pc' = "loop"
            /\ UNCHANGED exit_code
       ELSE /\ log' = log \cup {"start_failed"}
            /\ Exit(1)
            /\ UNCHANGED engine
    /\ UNCHANGED << raised, stop_msg, roi, frame_width, frame_height, final_stats,
                    aggVars, probeVars, pcStatus >>
    /\ UNCHANGED pureVars

\* on_message quitting the main loop on a warning as on an error
on_message_warning_quits(m) ==
    /\ pc = "loop"
    /\ IF m.type = "EOS"
       THEN /\ log' = log \cup {"eos"}
            /\ stop_msg' = m
            /\ pc' = "finally"
       ELSE IF m.type = "ERROR"
       THEN /\ log' = log \cup {"pipeline_error"}
            /\ stop_msg' = m
            /\ pc' = "finally"
       ELSE IF m.type = "WARNING"
       THEN /\ log' = log \cup {"warning"}
            /\ stop_msg' = m
            /\ pc' = "finally"
       ELSE /\ log' = log \cup {"state_changed"}
            /\ UNCHANGED << stop_msg, pc >>
    /\ UNCHANGED << exit_code, raised, engine, roi, frame_width, frame_height,
                    final_stats, aggVars, probeVars, pcStatus >>
    /\ UNCHANGED pureVars

\* on_message, called by the main loop for one bus message.  A warning is
\* logged at warning level, a state change of the pipeline at debug level
\* (a state change of another element is not logged and changes nothing).
on_message(m) ==
    /\ pc = "loop"
    /\ IF m.type = "EOS"
       THEN /\ log' = log \cup {"eos"}
            /\ stop_msg' = m
            /\ pc' = "finally"
       ELSE IF m.type = "ERROR"
       THEN /\ log' = log \cup {"pipeline_error"}
            /\ stop_msg' = m
            /\ pc' = "finally"
       ELSE IF m.type = "WARNING"
       THEN /\ log' = log \cup {"warning"}
            /\ UNCHANGED << stop_msg, pc >>
       ELSE /\ log' = log \cup {"state_changed"}
            /\ UNCHANGED << stop_msg, pc >>
    /\ UNCHANGED << exit_code, raised, engine, roi, frame_width, frame_height,
                    final_stats, aggVars, probeVars, pcStatus >>
    /\ UNCHANGED pureVars

\* KeyboardInterrupt out of loop.run()
Interrupt ==
    /\ pc = "loop"
    /\ log' = log \cup {"interrupted"}
    /\ stop_msg' = [type |-> "INTERRUPT", recoverable |-> TRUE]
    /\ pc' = "finally"
    /\ UNCHANGED << exit_code, raised, engine, roi, frame_width, frame_height,
                    final_stats, aggVars, probeVars, pcStatus >>
    /\ UNCHANGED pureVars

\* StopPipeline without the set_state(NULL)
StopPipeline_keeps_playing ==
    /\ pc = "finally"
    /\ pcProbe = "idle"
    /\ log' = log \cup {"stopped"}
    /\ pc' = "final_stats"
    /\ UNCHANGED << exit_code, raised, engine, stop_msg, roi, frame_width,
                    frame_height, final_stats, aggVars, probeVars, pcStatus >>
    /\ UNCHANGED pureVars

\* finally: pipeline.set_state(NULL), which returns once the streaming
\* thread has left the probe
StopPipeline ==
    /\ pc = "finally"
    /\ pcProbe = "idle"
    /\ engine' = "NULL"
    /\ log' = log \cup {"stopped"}
    /\ pc' = "final_stats"
    /\ UNCHANGED << exit_code, raised, stop_msg, roi, frame_width, frame_height,
                    final_stats, aggVars, probeVars, pcStatus >>
    /\ UNCHANGED pureVars

\* finally: perf_monitor.get_stats() takes the lock
FinalStatsAcquire ==
    /\ pc = "final_stats"
    /\ lock = "free"
    /\ lock' = "main"
    /\ pc' = "in_final_stats"
    /\ UNCHANGED << exit_code, raised, engine, log, stop_msg, roi, frame_width,
                    frame_height, final_stats, frame_times, detection_stats,
                    probeVars, pcStatus >>
    /\ UNCHANGED pureVars

\* ... computes, releases; the statistics are logged and run() returns 0
FinalStatsReturn ==
    /\ pc = "in_final_stats"
    /\ final_stats' = get_stats(frame_times, detection_stats)
    /\ lock' = "free"
    /\ log' = log \cup {"final_stats"}
    /\ Exit(0)
    /\ UNCHANGED << raised, engine, stop_msg, roi, frame_width, frame_height,
                    frame_times, detection_stats, probeVars, pcStatus >>
    /\ UNCHANGED pureVars

----------------------------------------------------------------------------
(* RTSPROICounter.on_buffer_probe, on the streaming thread *)

\* lines 229-346: the timestamp and the interval, the buffer, the frame size
\* from the caps on the first frame, and the scan of the detections.
\* t = time.time(); hasBuffer = info.get_buffer() is not None; caps = << >>
\* when the pad has no usable caps; rd, dets = what the hailo API returns.
ProbeEnter(t, hasBuffer, caps, rd, dets) ==
    /\ engine = "PLAYING"
    /\ pcProbe = "idle"
    /\ calls < MaxCalls
    /\ calls' = calls + 1
    /\ last_frame_time' = t
    /\ IF hasBuffer
       THEN LET w == IF frame_count = 0 /\ caps # << >> THEN caps[1] ELSE frame_width
                h == IF frame_count = 0 /\ caps # << >> THEN caps[2] ELSE frame_height
            IN  /\ current_time' = t
                /\ frame_interval_ms' =
                      IF last_frame_time # -1 THEN (t - last_frame_time) * 1000 ELSE 0
                /\ frame_width' = w
                /\ frame_height' = h
                /\ readable' = rd
                /\ detections' = IF rd THEN dets ELSE << >>
                /\ counts' = scan_detections(rd, dets, roi, w, h)
                /\ pcProbe' = "record"
       ELSE UNCHANGED << current_time, frame_interval_ms, frame_width, frame_height,
                         readable, detections, counts, pcProbe >>
    /\ UNCHANGED << pc, exit_code, raised, engine, log, stop_msg, roi, final_stats,
                    aggVars, frame_count, recorded, prev_processed, pcStatus >>
    /\ UNCHANGED pureVars

\* ProbeRecordTest without the test of the interval
ProbeRecordTest_always ==
    /\ pcProbe = "record"
    /\ pcProbe' = "add_frame_time"
    /\ UNCHANGED << mainVars, aggVars, last_frame_time, frame_count, current_time,
                    frame_interval_ms, readable, detections, counts, calls,
                    recorded, prev_processed, pcStatus >>
    /\ UNCHANGED pureVars

\* ProbeRecordTest letting an interval of zero through
ProbeRecordTest_nonnegative ==
    /\ pcProbe = "record"
    /\ pcProbe' = IF frame_interval_ms >= 0 THEN "add_frame_time" ELSE "count"
    /\ UNCHANGED << mainVars, aggVars, last_frame_time, frame_count, current_time,
                    frame_interval_ms, readable, detections, counts, calls,
                    recorded, prev_processed, pcStatus >>
    /\ UNCHANGED pureVars

\* line 349: a sample is recorded only for a positive interval
ProbeRecordTest ==
    /\ pcProbe = "record"
    /\ pcProbe' = IF frame_interval_ms > 0 THEN "add_frame_time" ELSE "count"
    /\ UNCHANGED << mainVars, aggVars, last_frame_time, frame_count, current_time,
                    frame_interval_ms, readable, detections, counts, calls,
                    recorded, prev_processed, pcStatus >>
    /\ UNCHANGED pureVars

ProbeStep(from, to, l1, l2) ==
    /\ pcProbe = from
    /\ lock = l1
    /\ pcProbe' = to
    /\ lock' = l2

\* add_frame_time: with self.lock
AddFrameTimeAcquire ==
    /\ ProbeStep("add_frame_time", "in_add_frame_time", "free", "probe")
    /\ UNCHANGED << mainVars, frame_times, detection_stats, last_frame_time,
                    frame_count, current_time, frame_interval_ms, readable,
                    detections, counts, calls, recorded, prev_processed, pcStatus >>
    /\ UNCHANGED pureVars

\* AddFrameTimeAppend leaving the interval out of the window
AddFrameTimeAppend_no_append ==
    /\ ProbeStep("in_add_frame_time", "add_detection", "probe", "free")
    /\ UNCHANGED << mainVars, frame_times, detection_stats, last_frame_time,
                    frame_count, current_time, frame_interval_ms, readable,
                    detections, counts, calls, recorded, prev_processed, pcStatus >>
    /\ UNCHANGED pureVars

\* add_frame_time: self.frame_times.append(time_ms), release
AddFrameTimeAppend ==
    /\ ProbeStep("in_add_frame_time", "add_detection", "probe", "free")
    /\ frame_times' = deque_append(frame_times, frame_interval_ms)
    /\ UNCHANGED << mainVars, detection_stats, last_frame_time,
                    frame_count, current_time, frame_interval_ms, readable,
                    detections, counts, calls, recorded, prev_processed, pcStatus >>
    /\ UNCHANGED pureVars

\* add_detection: with self.lock
AddDetectionAcquire ==
    /\ ProbeStep("add_detection", "in_add_detection", "free", "probe")
    /\ UNCHANGED << mainVars, frame_times, detection_stats, last_frame_time,
                    frame_count, current_time, frame_interval_ms, readable,
                    detections, counts, calls, recorded, prev_processed, pcStatus >>
    /\ UNCHANGED pureVars

\* add_detection: self.detection_stats.append(stats), release
AddDetectionAppend ==
    /\ ProbeStep("in_add_detection", "count", "probe", "free")
    /\ detection_stats' =
          deque_append(detection_stats,
                       DetectionStats(current_time, counts, frame_interval_ms, roi.name,
                                      recorded + 1))
    /\ recorded' = recorded + 1
    /\ UNCHANGED << mainVars, frame_times, last_frame_time,
                    frame_count, current_time, frame_interval_ms, readable,
                    detections, counts, calls, prev_processed, pcStatus >>
    /\ UNCHANGED pureVars

\* lines 362-376: frame_count += 1; when the log interval has passed (due)
\* the probe goes on to get_stats, otherwise it returns OK
ProbeCount(due) ==
    /\ pcProbe = "count"
    /\ frame_count' = frame_count + 1
    /\ prev_processed' = current_time
    /\ current_time' = 0
    /\ frame_interval_ms' = 0
    /\ readable' = TRUE
    /\ detections' = << >>
    /\ counts' = ZeroCounts
    /\ pcProbe' = IF due THEN "log_stats" ELSE "idle"
    /\ UNCHANGED << mainVars, aggVars, last_frame_time, calls, recorded, pcStatus >>
    /\ UNCHANGED pureVars

\* periodic logging: get_stats takes the lock
ProbeLogAcquire ==
    /\ ProbeStep("log_stats", "in_log_stats", "free", "probe")
    /\ UNCHANGED << mainVars, frame_times, detection_stats, last_frame_time,
                    frame_count, current_time, frame_interval_ms, readable,
                    detections, counts, calls, recorded, prev_processed, pcStatus >>
    /\ UNCHANGED pureVars

\* ... computes, releases; the summary line is logged and the probe returns OK
ProbeLogReturn ==
    /\ ProbeStep("in_log_stats", "idle", "probe", "free")
    /\ UNCHANGED << mainVars, frame_times, detection_stats,
                    last_frame_time, frame_count, current_time, frame_interval_ms,
                    readable, detections, counts, calls, recorded, prev_processed,
                    pcStatus >>
    /\ UNCHANGED pureVars

----------------------------------------------------------------------------
(* StatusHandler.do_GET for /status, on the HTTP thread *)

HttpServing == pc \notin {"init", "exited"}

StatusRequest ==
    /\ HttpServing
    /\ pcStatus = "idle"
    /\ pcStatus' = "get_stats"
    /\ UNCHANGED << mainVars, aggVars, probeVars >>
    /\ UNCHANGED pureVars

\* get_stats: with self.lock
StatusAcquire ==
    /\ HttpServing
    /\ pcStatus = "get_stats"
    /\ lock = "free"
    /\ lock' = "status"
    /\ pcStatus' = "in_get_stats"
    /\ UNCHANGED << mainVars, frame_times, detection_stats, probeVars >>
    /\ UNCHANGED pureVars

\* StatusReturn leaving the lock held
StatusReturn_keeps_lock ==
    /\ HttpServing
    /\ pcStatus = "in_get_stats"
    /\ pcStatus' = "idle"
    /\ UNCHANGED << mainVars, aggVars, probeVars >>
    /\ UNCHANGED pureVars

\* StatusReturn taking the samples it reports out of the window
StatusReturn_consumes ==
    /\ HttpServing
    /\ pcStatus = "in_get_stats"
    /\ lock' = "free"
    /\ pcStatus' = "idle"
    /\ detection_stats' = << >>
    /\ UNCHANGED << mainVars, frame_times, probeVars >>
    /\ UNCHANGED pureVars

\* get_stats computes and releases; the response is written
StatusReturn ==
    /\ HttpServing
    /\ pcStatus = "in_get_stats"
    /\ lock' = "free"
    /\ pcStatus' = "idle"
    /\ UNCHANGED << mainVars, frame_times, detection_stats, probeVars >>
    /\ UNCHANGED pureVars

----------------------------------------------------------------------------
(* The program *)

Next ==
    \/ \E missing \in BOOLEAN, r \in RoiConfigs : Construct(missing, r)
    \/ \E libFound \in BOOLEAN : BuildPipeline(libFound)
    \/ \E ok \in BOOLEAN, caps \in CapsSizes \cup {<< >>} : ParseLaunch(ok, caps)
    \/ \E ok \in BOOLEAN : StartPipeline(ok)
    \/ \E m \in Messages : on_message(m)
    \/ Interrupt
    \/ StopPipeline
    \/ FinalStatsAcquire
    \/ FinalStatsReturn
    \/ \E t \in Times, hasBuffer \in BOOLEAN, caps \in CapsSizes \cup {<< >>},
          rd \in BOOLEAN, dets \in DetectionLists :
          calls < MaxRunCalls /\ ProbeEnter(t, hasBuffer, caps, rd, dets)
    \/ ProbeRecordTest
    \/ AddFrameTimeAcquire
    \/ AddFrameTimeAppend
    \/ AddDetectionAcquire
    \/ AddDetectionAppend
    \/ \E due \in BOOLEAN : ProbeCount(due)
    \/ ProbeLogAcquire
    \/ ProbeLogReturn
    \/ StatusRequest
    \/ StatusAcquire
    \/ StatusReturn

Spec == Init /\ [][Next]_vars

----------------------------------------------------------------------------
(* One frame, over a wide range of detections.  The run has reached its    *)
(* last explored probe invocation with nothing recorded yet (the earlier   *)
(* invocations carried no buffer, or arrived with the same clock reading). *)

ClassIds == {0, 1, 2, 3, 5, 7}

L_Person_mixed == << "P","e","r","s","o","n" >>
L_TRUCK_upper  == << "T","R","U","C","K" >>
L_cat          == << "c","a","t" >>

LabelStrings == LabelKeys \cup { L_Person_mixed, L_TRUCK_upper, L_cat }

\* every way a single detection can present its class
ClassInputs ==
    { Detection(h, i, k, ls, ln, BoxInside, FALSE) :
        h \in {TRUE}, i \in ClassIds, k \in {"str"}, ls \in LabelStrings, ln \in {0} }
    \cup
    { Detection(FALSE, 0, "str", ls, 0, BoxInside, FALSE) : ls \in LabelStrings }
    \cup
    { Detection(h, i, "int", << >>, ln, BoxInside, FALSE) :
        h \in BOOLEAN, i \in {0, 1}, ln \in {0, 1, 7} }
    \cup
    { Detection(h, i, "none", << >>, 0, BoxInside, FALSE) :
        h \in BOOLEAN, i \in {0, 1, 2} }

ScanPool ==
    { Detection(TRUE, 0, "str", L_person, 0, BoxInside, FALSE),
      Detection(TRUE, 0, "str", L_person, 0, BoxOutside, FALSE),
      Detection(TRUE, 2, "str", L_car, 0, BoxInside, FALSE),
      Detection(TRUE, 1, "str", L_truck, 0, BoxInside, FALSE),
      Detection(TRUE, 1, "str", L_cat, 0, BoxInside, FALSE),
      Detection(FALSE, 0, "str", L_TRUCK_upper, 0, BoxInside, FALSE),
      Detection(FALSE, 0, "str", L_cat, 0, BoxInside, FALSE),
      Detection(FALSE, 0, "str", L_cat, 0, BoxInside, TRUE),
      Detection(TRUE, 0, "str", L_person, 0, BoxInside, TRUE) }

FrameLists ==
    UNION { [1..n -> ScanPool] : n \in 0..MaxScanLen }
    \cup { << d >> : d \in ClassInputs }
    \cup { << [d EXCEPT !.bbox = BoxOutside] >> : d \in ClassInputs }

\* the pipeline is PLAYING, the main loop runs, the probe is idle and
\* nothing has been recorded
RunningIdle ==
    /\ overlap_in = NoOverlapCall
    /\ overlap_out = "unset"
    /\ pc = "loop"
    /\ exit_code = -1
    /\ raised = "none"
    /\ engine = "PLAYING"
    /\ log = {"starting", "built", "probe_added", "started"}
    /\ stop_msg = NoMessage
    /\ roi \in RoiConfigs
    /\ frame_width = DefaultWidth
    /\ frame_height = DefaultHeight
    /\ frame_times = << >>
    /\ detection_stats = << >>
    /\ lock = "free"
    /\ final_stats = EmptyStats
    /\ pcProbe = "idle"
    /\ current_time = 0
    /\ frame_interval_ms = 0
    /\ readable = TRUE
    /\ detections = << >>
    /\ counts = ZeroCounts
    /\ pcStatus = "idle"
    /\ recorded = 0

InitFrame ==
    /\ RunningIdle
    /\ last_frame_time = 0
    /\ \/ frame_count = 0 /\ prev_processed = -1
       \/ frame_count = 1 /\ prev_processed = 0
    /\ calls = MaxCalls - 1

NextFrame ==
    \/ \E t \in Times, hasBuffer \in BOOLEAN, caps \in CapsSizes \cup {<< >>},
          rd \in BOOLEAN, dets \in FrameLists :
          ProbeEnter(t, hasBuffer, caps, rd, dets)
    \/ ProbeRecordTest
    \/ AddFrameTimeAcquire
    \/ AddFrameTimeAppend
    \/ AddDetectionAcquire
    \/ AddDetectionAppend
    \/ \E due \in BOOLEAN : ProbeCount(due)
    \/ ProbeLogAcquire
    \/ ProbeLogReturn

FrameSpec == InitFrame /\ [][NextFrame]_vars

----------------------------------------------------------------------------
(* contains_bbox as a function: one call on arbitrary arguments.  The ROI  *)
(* corners are 0.5 and 1.0 of the frame, the box is in pixels.             *)

OverlapRois ==
    { ROI(x1, y1, x2, y2, "r") : x1 \in {10, 20}, y1 \in {10, 20},
                                 x2 \in {10, 20}, y2 \in {10, 20} }

OverlapDims == { -2, 0, 2, 4 }

Pixels == 0..GridMax

InitOverlap ==
    /\ InitProgram
    /\ overlap_out = "unset"
    /\ overlap_in \in [roi : OverlapRois,
                       bbox : Pixels \X Pixels \X Pixels \X Pixels,
                       w : OverlapDims, h : OverlapDims]

\* the call: pixel p is p * Scale in the unit of the model
CallContainsBbox ==
    /\ overlap_out = "unset"
    /\ overlap_out' =
          IF contains_bbox(overlap_in.roi,
                           overlap_in.bbox[1] * Scale, overlap_in.bbox[2] * Scale,
                           overlap_in.bbox[3] * Scale, overlap_in.bbox[4] * Scale,
                           overlap_in.w, overlap_in.h)
          THEN "True" ELSE "False"
    /\ UNCHANGED << overlap_in, mainVars, aggVars, probeVars, pcStatus >>

NextOverlap == CallContainsBbox

OverlapSpec == InitOverlap /\ [][NextOverlap]_vars

----------------------------------------------------------------------------
(* The three threads around the lock of PerformanceMonitor, from a running *)
(* pipeline to the end of run(), under fair scheduling: a thread that can  *)
(* take a step takes it (WF), and a thread that waits for the lock gets it *)
(* if the lock is free again and again (SF).  Buffers, bus messages,       *)
(* interrupts and status requests arrive when they arrive: no fairness.    *)

NextLock ==
    \/ \E t \in Times, hasBuffer \in BOOLEAN, caps \in CapsSizes \cup {<< >>},
          rd \in BOOLEAN, dets \in DetectionLists :
          ProbeEnter(t, hasBuffer, caps, rd, dets)
    \/ ProbeRecordTest
    \/ AddFrameTimeAcquire
    \/ AddFrameTimeAppend
    \/ AddDetectionAcquire
    \/ AddDetectionAppend
    \/ \E due \in BOOLEAN : ProbeCount(due)
    \/ ProbeLogAcquire
    \/ ProbeLogReturn
    \/ StatusRequest
    \/ StatusAcquire
    \/ StatusReturn
    \/ \E m \in Messages : on_message(m)
    \/ Interrupt
    \/ StopPipeline
    \/ FinalStatsAcquire
    \/ FinalStatsReturn

Fairness ==
    /\ WF_vars(ProbeRecordTest)
    /\ SF_vars(AddFrameTimeAcquire)
    /\ WF_vars(AddFrameTimeAppend)
    /\ SF_vars(AddDetectionAcquire)
    /\ WF_vars(AddDetectionAppend)
    /\ WF_vars(\E due \in BOOLEAN : ProbeCount(due))
    /\ SF_vars(ProbeLogAcquire)
    /\ WF_vars(ProbeLogReturn)
    /\ SF_vars(StatusAcquire)
    /\ WF_vars(StatusReturn)
    /\ WF_vars(StopPipeline)
    /\ SF_vars(FinalStatsAcquire)
    /\ WF_vars(FinalStatsReturn)

FairSpec == InitFrame /\ [][NextLock]_vars /\ Fairness

----------------------------------------------------------------------------
(* The statistics window over a long run of frames: the streaming thread   *)
(* alone, from the start of the pipeline to the final statistics after an  *)
(* interrupt.                                                              *)

InitWindow ==
    /\ RunningIdle
    /\ last_frame_time = -1
    /\ frame_count = 0
    /\ prev_processed = -1
    /\ calls = 0

NextWindow ==
    \/ \E t \in Times, hasBuffer \in BOOLEAN, caps \in CapsSizes \cup {<< >>},
          rd \in BOOLEAN, dets \in DetectionLists :
          ProbeEnter(t, hasBuffer, caps, rd, dets)
    \/ ProbeRecordTest
    \/ AddFrameTimeAcquire
    \/ AddFrameTimeAppend
    \/ AddDetectionAcquire
    \/ AddDetectionAppend
    \/ \E due \in BOOLEAN : ProbeCount(due)
    \/ ProbeLogAcquire
    \/ ProbeLogReturn
    \/ Interrupt
    \/ StopPipeline
    \/ FinalStatsAcquire
    \/ FinalStatsReturn

WindowSpec == InitWindow /\ [][NextWindow]_vars

----------------------------------------------------------------------------
(* The lifecycle state of the specification, read off the position of      *)
(* main() / run().                                                         *)

PipelineState ==
    CASE pc \in {"init", "constructed"} -> "Idle"
      [] pc \in {"built", "parsed"} -> "Building"
      [] pc = "loop" -> "Running"
      [] pc \in {"finally", "final_stats", "in_final_stats"} -> "Draining"
      [] pc = "exited" /\ exit_code = 0 -> "Stopped"
      [] OTHER -> "Failed"

----------------------------------------------------------------------------
(* Properties *)

\* what the frame being evaluated should count, detection by detection
IsPerson(d)  == resolve_class_id(d).known /\ resolve_class_id(d).id = COCO_PERSON
IsVehicle(d) == resolve_class_id(d).known /\ resolve_class_id(d).id \in COCO_VEHICLES

\* the pixel-converted box of d overlaps the ROI (an unreadable box does not)
OverlapsRoi(d) ==
    /\ ~ d.malformed
    /\ contains_bbox(roi, d.bbox[1] * frame_width, d.bbox[2] * frame_height,
                     d.bbox[3] * frame_width, d.bbox[4] * frame_height,
                     frame_width, frame_height)

PersonsInRoi  == Cardinality({ i \in 1..Len(detections) :
                                 IsPerson(detections[i]) /\ OverlapsRoi(detections[i]) })
VehiclesInRoi == Cardinality({ i \in 1..Len(detections) :
                                 IsVehicle(detections[i]) /\ OverlapsRoi(detections[i]) })
AnyInRoi      == Cardinality({ i \in 1..Len(detections) : OverlapsRoi(detections[i]) })

\* the probe has just appended the sample of the frame it is evaluating
SampleJustRecorded == pcProbe = "count" /\ frame_interval_ms > 0

LastSample == detection_stats[Len(detection_stats)]

\* C1: the sample of a frame counts exactly the Person detections and the
\* Vehicle detections of the frame's list that overlap the ROI; detections
\* outside the ROI count nowhere; an empty list gives three zeros.
C1_SampleCountsDetectionsInRoi ==
    SampleJustRecorded =>
        /\ LastSample.person_count = PersonsInRoi
        /\ LastSample.vehicle_count = VehiclesInRoi
        /\ LastSample.total_detections <= AnyInRoi
        /\ (detections = << >> =>
               /\ LastSample.person_count = 0
               /\ LastSample.vehicle_count = 0
               /\ LastSample.total_detections = 0)

\* the ROI corner c (a fraction of the frame) in whole pixels
RoiPx(c, dim) == (c * dim) \div Scale

OverlapCallValid ==
    /\ overlap_in.roi.x1 < overlap_in.roi.x2
    /\ overlap_in.roi.y1 < overlap_in.roi.y2
    /\ overlap_in.w > 0
    /\ overlap_in.h > 0

OverlapDisjoint ==
    \/ overlap_in.bbox[3] < RoiPx(overlap_in.roi.x1, overlap_in.w)
    \/ overlap_in.bbox[1] > RoiPx(overlap_in.roi.x2, overlap_in.w)
    \/ overlap_in.bbox[4] < RoiPx(overlap_in.roi.y1, overlap_in.h)
    \/ overlap_in.bbox[2] > RoiPx(overlap_in.roi.y2, overlap_in.h)

\* C2: for a well-formed ROI and positive frame dimensions contains_bbox is
\* False exactly when the box is strictly beyond the pixel-scaled ROI on
\* some axis; a box that only touches the ROI edge overlaps.
C2_ContainsBboxFalseIffDisjoint ==
    (overlap_out # "unset" /\ OverlapCallValid) =>
        /\ (overlap_out = "False") <=> OverlapDisjoint
        /\ (overlap_in.bbox[1] > RoiPx(overlap_in.roi.x2, overlap_in.w)) =>
               overlap_out = "False"

\* a box whose right edge is exactly the ROI's left edge, and which overlaps
C2_Witness_TouchingEdgeOverlaps ==
    /\ overlap_out = "True"
    /\ OverlapCallValid
    /\ overlap_in.bbox[3] = RoiPx(overlap_in.roi.x1, overlap_in.w)
    /\ overlap_in.bbox[1] < overlap_in.bbox[3]

\* C3: whenever the status thread is inside get_stats, the interval window
\* and the sample window have the same number of entries.
C3_SnapshotSeesWholeFrames ==
    (pcStatus = "in_get_stats") => Len(frame_times) = Len(detection_stats)

\* thread th is between taking and releasing the lock
Inside(th) ==
    CASE th = "probe"  -> pcProbe \in {"in_add_frame_time", "in_add_detection",
                                       "in_log_stats"}
      [] th = "status" -> pcStatus = "in_get_stats"
      [] th = "main"   -> pc = "in_final_stats"

InCriticalSection == { th \in {"probe", "status", "main"} : Inside(th) }

MutualExclusion ==
    /\ Cardinality(InCriticalSection) <= 1
    /\ lock = "free" <=> InCriticalSection = {}
    /\ lock # "free" => InCriticalSection = {lock}

\* C4: at most one thread is inside a critical section of the aggregator,
\* and under fair scheduling no call waits forever: a status request
\* returns (or the process has exited), the probe returns, the lock is
\* released again, and the final get_stats of run() completes.
C4_NoDeadlockAndMutualExclusion ==
    /\ [] MutualExclusion
    /\ (pcStatus # "idle") ~> (pcStatus = "idle" \/ pc = "exited")
    /\ (pcProbe # "idle") ~> (pcProbe = "idle")
    /\ (lock # "free") ~> (lock = "free" \/ pc = "exited")
    /\ (pc = "final_stats") ~> (pc = "exited")

\* the status thread waits for the lock while the probe holds it
C4_Witness_StatusWaitsForProbe ==
    /\ pcStatus = "get_stats"
    /\ lock = "probe"
    /\ pcProbe = "in_add_detection"

\* no recording is half applied (interval appended, sample not yet)
NoPushInProgress == pcProbe \notin {"add_detection", "in_add_detection"}

ReportedTotal(st) == IF st.empty THEN 0 ELSE st.total_frames

\* C5: after k recordings the sample window holds the min(k, N) most recent
\* samples in arrival order, neither window exceeds N, and get_stats
\* reports min(k, N) frames (nothing at all while k = 0).
C5_WindowKeepsMostRecent ==
    /\ Len(detection_stats) = Min(recorded, WindowSize)
    /\ \A i \in 1..Len(detection_stats) :
          detection_stats[i].seq = recorded - Len(detection_stats) + i
    /\ Len(frame_times) <= WindowSize
    /\ NoPushInProgress =>
          /\ ReportedTotal(get_stats(frame_times, detection_stats))
                = Min(recorded, WindowSize)
          /\ get_stats(frame_times, detection_stats).empty <=> recorded = 0
    /\ (pc = "exited" /\ exit_code = 0) =>
          ReportedTotal(final_stats) = Min(recorded, WindowSize)

\* one more sample than the window holds has been recorded
C5_Witness_OldestEvicted ==
    /\ recorded = WindowSize + 1
    /\ Len(detection_stats) = WindowSize
    /\ detection_stats[1].seq = 2
    /\ pc = "exited"
    /\ final_stats.total_frames = WindowSize

StoppedBy(types) == stop_msg.type \in types

\* C7: after EndOfStream or an interrupt while Running the controller has
\* left the run loop; the final statistics are logged only once the engine
\* is in its null state; the run ends Stopped with exit code 0, never
\* Failed.
C7_EosOrInterruptStopsCleanly ==
    /\ "final_stats" \in log => (engine = "NULL" /\ "stopped" \in log)
    /\ StoppedBy({"EOS", "INTERRUPT"}) =>
          /\ PipelineState \in {"Draining", "Stopped"}
          /\ exit_code # 1
          /\ pc = "exited" =>
                /\ exit_code = 0
                /\ engine = "NULL"
                /\ "final_stats" \in log

\* a run ended by EndOfStream
C7_Witness_StoppedAfterEos ==
    /\ StoppedBy({"EOS"})
    /\ PipelineState = "Stopped"
    /\ "final_stats" \in log
    /\ calls > 0

ConstructionFailed ==
    \/ raised = "FileNotFoundError"
    \/ "create_failed" \in log
    \/ "start_failed" \in log

\* C8: when the post-process library is not found, the pipeline description
\* is rejected or the start is rejected, the run is Failed with exit code 1
\* and has never been Running nor processed a frame.
C8_ConstructionFailureExitsOne ==
    ConstructionFailed =>
        /\ PipelineState = "Failed"
        /\ pc = "exited"
        /\ exit_code = 1
        /\ "started" \notin log
        /\ engine = "NULL"
        /\ calls = 0
        /\ frame_count = 0

\* a run whose start the engine rejected
C8_Witness_StartRejected ==
    /\ "start_failed" \in log
    /\ pc = "exited"
    /\ exit_code = 1

\* C9: a recoverable engine error ends the run Stopped with exit code 0, an
\* unrecoverable one takes it directly to Failed with exit code 1.
C9_UnrecoverableErrorFails ==
    StoppedBy({"ERROR"}) =>
        IF stop_msg.recoverable
        THEN /\ PipelineState \in {"Draining", "Stopped"}
             /\ pc = "exited" => exit_code = 0
        ELSE /\ PipelineState = "Failed"
             /\ exit_code = 1

\* the category C10 gives a detection
VehicleLabels == { L_car, L_automobile, L_motorcycle, L_motorbike, L_bus,
                   L_truck, L_lorry }

SameIgnoringCase(a, b) ==
    /\ Len(a) = Len(b)
    /\ \A i \in 1..Len(a) : LowerChar(a[i]) = LowerChar(b[i])

TwoStepCategory(d) ==
    IF d.hasId
    THEN IF d.id = 0 THEN "Person"
         ELSE IF d.id \in {2, 3, 5, 7} THEN "Vehicle" ELSE "Other"
    ELSE IF d.labelKind = "str"
         THEN IF SameIgnoringCase(d.labelStr, L_person) THEN "Person"
              ELSE IF \E v \in VehicleLabels : SameIgnoringCase(d.labelStr, v)
                   THEN "Vehicle" ELSE "Skipped"
         ELSE IF d.labelKind = "none" THEN "Skipped" ELSE "Unstated"

\* the probe has scanned a list of one well-formed detection
ScannedOne == pcProbe \in {"record", "add_frame_time", "in_add_frame_time",
                           "add_detection", "in_add_detection"}
              /\ readable /\ Len(detections) = 1 /\ ~ detections[1].malformed

\* C10: a numeric class id alone decides the category when there is one;
\* otherwise the label does, whatever its case; a detection with neither
\* an id nor a known label adds to no counter.
C10_TwoStepClassification ==
    ScannedOne =>
        LET d   == detections[1]
            cat == TwoStepCategory(d)
            hit == IF OverlapsRoi(d) THEN 1 ELSE 0
        IN  /\ cat = "Person"  => (counts.person_count = hit /\ counts.vehicle_count = 0)
            /\ cat = "Vehicle" => (counts.person_count = 0 /\ counts.vehicle_count = hit)
            /\ cat = "Other"   => (counts.person_count = 0 /\ counts.vehicle_count = 0)
            /\ cat = "Skipped" => counts = ZeroCounts

\* a detection without an id, labelled TRUCK, counted as a vehicle
C10_Witness_UpperCaseLabelCounted ==
    /\ ScannedOne
    /\ ~ detections[1].hasId
    /\ detections[1].labelStr = L_TRUCK_upper
    /\ counts.vehicle_count = 1

MappedIds == {COCO_PERSON} \cup COCO_VEHICLES

LabelledTruck(d) == d.labelKind = "str" /\ SameIgnoringCase(d.labelStr, L_truck)

\* the label of d is in no row of the label table (or d has no label)
UnknownLabel(d) ==
    \/ d.labelKind = "none"
    \/ d.labelKind = "str" /\ \A k \in LabelKeys : ~ SameIgnoringCase(d.labelStr, k)

\* C11 as stated: a detection whose numeric class id is outside the table
\* and whose label is "truck" counts as a vehicle when it overlaps the ROI.
C11_UnmappedIdTruckIsVehicle ==
    (ScannedOne /\ detections[1].hasId /\ detections[1].id \notin MappedIds
       /\ LabelledTruck(detections[1]) /\ OverlapsRoi(detections[1]))
    => counts.vehicle_count = 1

\* C11 amended: the label "truck" makes a detection a vehicle only when it
\* carries no numeric class id; then it adds one to vehicle_count when it
\* overlaps the ROI.  With a numeric class id the id alone decides, so an
\* id outside the table adds nothing to vehicle_count whatever the label.
C11_TruckLabelCountsOnlyWithoutId ==
    (ScannedOne /\ LabelledTruck(detections[1]) /\ OverlapsRoi(detections[1]))
    => /\ ~ detections[1].hasId =>
             /\ counts.vehicle_count = 1
             /\ counts.person_count = 0
       /\ detections[1].hasId =>
             counts.vehicle_count = (IF detections[1].id \in COCO_VEHICLES THEN 1 ELSE 0)

\* a detection without a class id, labelled truck, counted as a vehicle
C11_Witness_TruckWithoutIdCounted ==
    /\ ScannedOne
    /\ ~ detections[1].hasId
    /\ detections[1].labelStr = L_truck
    /\ OverlapsRoi(detections[1])
    /\ counts.vehicle_count = 1

\* C12: a detection with a numeric class id outside the table and an
\* unknown label changes none of the three counters of the frame, even
\* when its box overlaps the ROI.
C12_UnmappedIdChangesNoCounter ==
    (ScannedOne /\ detections[1].hasId /\ detections[1].id \notin MappedIds
       /\ UnknownLabel(detections[1]) /\ OverlapsRoi(detections[1]))
    => /\ counts.person_count = 0
       /\ counts.vehicle_count = 0
       /\ counts.total_detections = 0

\* a step of the HTTP thread: a request arrives, get_stats takes the lock,
\* get_stats returns and the response is written
StatusStep == pcStatus' # pcStatus

\* C13: a status query is a pure read.  No step of a query changes the two
\* windows, the frame counter, the last frame timestamp, the lifecycle
\* state or anything else of the program; a query only takes the lock while
\* it is free and has given it back when it returns.
C13_StatusQueryIsPureRead ==
    [][ StatusStep =>
          /\ UNCHANGED << frame_times, detection_stats >>
          /\ UNCHANGED << frame_count, last_frame_time >>
          /\ UNCHANGED << pc, exit_code, engine, stop_msg, log, roi,
                          frame_width, frame_height, final_stats >>
          /\ UNCHANGED << pcProbe, current_time, frame_interval_ms, counts,
                          detections, recorded >>
          /\ PipelineState' = PipelineState
          /\ lock' # lock => (lock = "free" /\ lock' = "status")
                             \/ (lock = "status" /\ lock' = "free")
          /\ pcStatus' = "idle" => lock' = "free" ]_vars

\* a query is inside get_stats while the probe is halfway through
\* recording a frame and the windows are not empty
C13_Witness_QueryDuringRecording ==
    /\ pcStatus = "in_get_stats"
    /\ pcProbe = "add_detection"
    /\ Len(frame_times) = 2
    /\ Len(detection_stats) = 1

\* C14: while the pipeline is Building or Running the ROI in use is
\* well-formed: x1 < x2 and y1 < y2 (a degenerate or inverted region was
\* rejected at construction).
C14_RoiWellFormedWhileBuildingOrRunning ==
    PipelineState \in {"Building", "Running"} =>
        /\ roi.x1 < roi.x2
        /\ roi.y1 < roi.y2

\* C15: contains_bbox returns False for every ROI and every box whenever
\* frame_width <= 0 or frame_height <= 0.
C15_NonPositiveFrameNeverOverlaps ==
    (overlap_out # "unset" /\ (overlap_in.w <= 0 \/ overlap_in.h <= 0))
    => overlap_out = "False"

\* the probe has scanned the detections of the frame it is evaluating
ScannedList == pcProbe \in {"record", "add_frame_time", "in_add_frame_time",
                            "add_detection", "in_add_detection"}
               /\ readable

WellFormed(d) == ~ d.malformed

MalformedOnes == { i \in 1..Len(detections) : detections[i].malformed }

\* what the scan gives for the list without its malformed detections
CountsWithoutMalformed ==
    scan_from(SelectSeq(detections, WellFormed), 1, ZeroCounts,
              roi, frame_width, frame_height)

\* C16: a single malformed detection is skipped without affecting the rest
\* of the frame: the counters are those of the same list with the malformed
\* detection taken out, wherever in the list it stands.
C16_MalformedDetectionIsSkipped ==
    (ScannedList /\ Cardinality(MalformedOnes) = 1) =>
        /\ counts.person_count = CountsWithoutMalformed.person_count
        /\ counts.vehicle_count = CountsWithoutMalformed.vehicle_count
        /\ counts.total_detections = CountsWithoutMalformed.total_detections

\* C17: when the scan of a frame's detections raises, the run goes on in
\* the same lifecycle state and the sample recorded for the frame has three
\* zero counters, whatever was scanned before the exception.
C17_RaisedScanRecordsZeroCounts ==
    /\ (pcProbe # "idle" /\ counts.raised) =>
          /\ PipelineState = "Running"
          /\ exit_code = -1
    /\ (SampleJustRecorded /\ counts.raised) =>
          /\ LastSample.person_count = 0
          /\ LastSample.vehicle_count = 0
          /\ LastSample.total_detections = 0

\* the lines of the logger that name the cause of a fatal exit: "Failed to
\* create pipeline" and "Unable to set pipeline to PLAYING state"
CauseLines == {"create_failed", "start_failed"}

FatalExit == pc = "exited" /\ exit_code = 1

\* C18: no fatal exit (missing configuration field, post-process library
\* not found, pipeline description rejected, start rejected) happens
\* without a line naming the cause written through the logger before it.
C18_FatalExitHasCauseLine ==
    FatalExit => log \cap CauseLines # {}

\* on_message has handled a Warning or a StateChanged notification: its
\* line is new in the log
NotificationStep ==
    \/ "warning" \in log' /\ "warning" \notin log
    \/ "state_changed" \in log' /\ "state_changed" \notin log

\* C19: a Warning or StateChanged notification received while Running
\* leaves the lifecycle state, the run loop, the two windows and the frame
\* counter unchanged; the pipeline is still Running and PLAYING, so frames
\* keep being processed.
C19_NotificationsChangeNothing ==
    [][ NotificationStep =>
          /\ PipelineState = "Running"
          /\ PipelineState' = "Running"
          /\ UNCHANGED << pc, stop_msg, exit_code, raised, engine >>
          /\ engine' = "PLAYING"
          /\ UNCHANGED << frame_times, detection_stats, lock >>
          /\ UNCHANGED << frame_count, last_frame_time, pcProbe, recorded >>
          /\ log' \ log \subseteq {"warning", "state_changed"} ]_vars

\* both notifications have been handled, the pipeline is Running and the
\* probe is recording the sample of a frame
C19_Witness_RunningAfterNotifications ==
    /\ {"warning", "state_changed"} \subseteq log
    /\ PipelineState = "Running"
    /\ engine = "PLAYING"
    /\ pcProbe = "in_add_detection"
    /\ frame_count = 1

\* C20: the interval stored in a recorded sample is the wall-clock time
\* elapsed since the immediately preceding processed frame (one that had a
\* buffer), times 1000, whatever invocations without a buffer came in
\* between; the previous-frame timestamp is advanced by processed frames
\* only.
C20_IntervalSincePrecedingProcessedFrame ==
    /\ SampleJustRecorded =>
          /\ prev_processed # -1
          /\ LastSample.processing_time_ms = (current_time - prev_processed) * 1000
    /\ pcProbe = "idle" => last_frame_time = prev_processed

\* get_stats takes the branch that divides: 1000 / avg_time with avg_time > 0
DividesByPositiveAverage(ft) ==
    /\ SumSeq(ft) > 0
    /\ ~ get_stats(ft, detection_stats).empty
    /\ get_stats(ft, detection_stats).avg_x100 > 0
    /\ get_stats(ft, detection_stats).fps_x100 > 0

\* C21: every interval in the interval window is strictly positive; so
\* whenever the window is not empty its average is positive and get_stats
\* computes fps by dividing by it; when the window is empty get_stats
\* returns the empty result.  The same holds for the final statistics.
C21_WindowIntervalsArePositive ==
    /\ \A i \in 1..Len(frame_times) : frame_times[i] > 0
    /\ frame_times # << >> => DividesByPositiveAverage(frame_times)
    /\ frame_times = << >> => get_stats(frame_times, detection_stats) = EmptyStats
    /\ (pc = "exited" /\ exit_code = 0) =>
          /\ final_stats.empty <=> frame_times = << >>
          /\ ~ final_stats.empty => final_stats.fps_x100 > 0

\* a run in which the clock once stepped back (an invocation recorded
\* nothing), with a full window and final statistics with a positive fps
C21_Witness_PositiveFpsAfterClockStepBack ==
    /\ pc = "exited"
    /\ calls = MaxCalls
    /\ recorded < calls - 1
    /\ Len(frame_times) = WindowSize
    /\ final_stats.fps_x100 > 0

\* C22: whenever no probe invocation is in progress, the interval window
\* and the sample window have the same length and the i-th interval is the
\* frame interval stored in the i-th sample: after the first frame, frames
\* without a buffer, frames whose detections could not be read and frames
\* beyond the capacity of the windows.
C22_WindowsAlignedBetweenFrames ==
    pcProbe = "idle" =>
        /\ Len(frame_times) = Len(detection_stats)
        /\ \A i \in 1..Len(frame_times) :
              frame_times[i] = detection_stats[i].processing_time_ms

\* more frames were recorded than the windows hold, and the two entries
\* kept carry different intervals
C22_Witness_AlignedAfterEviction ==
    /\ pcProbe = "idle"
    /\ recorded = WindowSize + 1
    /\ Len(frame_times) = WindowSize
    /\ frame_times[1] # frame_times[WindowSize]
    /\ detection_stats[WindowSize].processing_time_ms = frame_times[WindowSize]

====
